---- MODULE Spec2Model ----
(***************************************************************************)
(* Model of src/criterion.py: the masked pixel losses, the VGG perceptual  *)
(* loss and the Criterion module that selects and combines them.           *)
(*                                                                         *)
(* Two specifications share the module:                                    *)
(*   SpecLoss  masked_mse_loss / masked_l1_loss applied to small concrete  *)
(*             tensors whose elements are IEEE values (finite, inf, nan);  *)
(*   Spec      Criterion.__init__ / Criterion.forward on tensor            *)
(*             descriptors (name, shape, operations applied), where the    *)
(*             pretrained networks are uninterpreted.                      *)
(***************************************************************************)
EXTENDS Integers, Sequences, FiniteSets, TLC

VARIABLES
    \* pixel-level model: the last call of a masked loss
    lastFn,       \* "none", "mse" or "l1": the function called last
    argPred,      \* its pred argument
    argGt,        \* its gt argument
    argMask,      \* its mask argument, NoMask for mask=None
    ret,          \* the loss it returned
    edit,         \* the one element of pred or gt a call has replaced, or NoEdit
    \* Criterion-level model
    crit,         \* the Criterion object: what __init__ did and the fields it set
    heap,         \* the dict objects: contents of logA, logB (scalar_to_log) and res (res_dict)
    call          \* the last call of Criterion.forward: its arguments and its outcome

lossVars == <<lastFn, argPred, argGt, argMask, ret, edit>>
critVars == <<crit, heap, call>>
vars == <<lossVars, critVars>>

(***************************************************************************)
(* Bounds of the pixel-level model.                                        *)
(***************************************************************************)
\* finite element values are 0..MaxVal
MaxVal == 1
\* channels of pred and gt (dimension 1 of B x C x H x W)
NChan == 2
\* pixels of pred and gt (B = H = 1, W = NPix)
NPix == 2
\* largest entry of a constant (non 0/1) mask
MaxMask == 2

(***************************************************************************)
(* IEEE element values: a finite number, +inf or nan.                      *)
(***************************************************************************)
Fin(n) == [k |-> "fin", n |-> n]
Inf == [k |-> "inf", n |-> 0]
NaN == [k |-> "nan", n |-> 0]
Val == {Fin(n) : n \in 0..MaxVal} \cup {Inf, NaN}
IsFinite(x) == x.k = "fin"

Max2(a, b) == IF a >= b THEN a ELSE b
Min2(a, b) == IF a <= b THEN a ELSE b
Abs(n) == IF n < 0 THEN -n ELSE n

\* F.l1_loss(pred, gt, reduction='none') at one element: |pred - gt|
AbsDiff(a, b) ==
    IF a.k = "nan" \/ b.k = "nan" THEN NaN
    ELSE IF a.k = "inf" /\ b.k = "inf" THEN NaN
    ELSE IF a.k = "inf" \/ b.k = "inf" THEN Inf
    ELSE Fin(Abs(a.n - b.n))

\* F.mse_loss(pred, gt, reduction='none') at one element: (pred - gt)^2
SqDiff(a, b) ==
    IF a.k = "nan" \/ b.k = "nan" THEN NaN
    ELSE IF a.k = "inf" /\ b.k = "inf" THEN NaN
    ELSE IF a.k = "inf" \/ b.k = "inf" THEN Inf
    ELSE Fin((a.n - b.n) * (a.n - b.n))

\* one element of sum_loss * mask: a loss value times a finite mask entry m
MulMask(e, m) ==
    IF e.k = "nan" THEN NaN
    ELSE IF e.k = "inf" THEN (IF m = 0 THEN NaN ELSE Inf)
    ELSE Fin(e.n * m)

\* floating-point addition inside torch.sum
AddVal(x, y) ==
    IF x.k = "nan" \/ y.k = "nan" THEN NaN
    ELSE IF x.k = "inf" \/ y.k = "inf" THEN Inf
    ELSE Fin(x.n + y.n)

(***************************************************************************)
(* Tensors of shape 1 x C x 1 x W: a sequence of C channels, each a        *)
(* sequence of W elements. pred and gt hold Val, a mask holds naturals.    *)
(***************************************************************************)
Chans(t) == Len(t)
Width(t) == Len(t[1])

\* torch.sum over a tensor of loss values, element k of the flattened tensor
RECURSIVE SumValsFrom(_, _)
SumValsFrom(t, k) ==
    IF k > Chans(t) * Width(t) THEN Fin(0)
    ELSE AddVal(t[((k - 1) \div Width(t)) + 1][((k - 1) % Width(t)) + 1],
                SumValsFrom(t, k + 1))
SumVals(t) == SumValsFrom(t, 1)

\* torch.sum(mask): over the mask's own elements, before any broadcasting
RECURSIVE SumMaskFrom(_, _)
SumMaskFrom(m, k) ==
    IF k > Chans(m) * Width(m) THEN 0
    ELSE m[((k - 1) \div Width(m)) + 1][((k - 1) % Width(m)) + 1]
         + SumMaskFrom(m, k + 1)
SumMask(m) == SumMaskFrom(m, 1)

\* two sizes of one dimension can be broadcast together
Broadcastable(a, b) == a = b \/ a = 1 \/ b = 1

\* seeded fault for MulBroadcast: the mask is not multiplied in
MulBroadcastMaskDropped(l, m) ==
    [c \in 1..Max2(Chans(l), Chans(m)) |->
        [p \in 1..Max2(Width(l), Width(m)) |->
            l[IF Chans(l) = 1 THEN 1 ELSE c][IF Width(l) = 1 THEN 1 ELSE p]]]
\* sum_loss * mask with broadcasting over the channel and width dimensions
MulBroadcast(l, m) ==
    [c \in 1..Max2(Chans(l), Chans(m)) |->
        [p \in 1..Max2(Width(l), Width(m)) |->
            MulMask(l[IF Chans(l) = 1 THEN 1 ELSE c][IF Width(l) = 1 THEN 1 ELSE p],
                    m[IF Chans(m) = 1 THEN 1 ELSE c][IF Width(m) = 1 THEN 1 ELSE p])]]

\* F.interpolate(mask, size=W) in its default mode 'nearest'
InterpolateNearest(m, w) ==
    [c \in 1..Chans(m) |-> [p \in 1..w |-> m[c][(((p - 1) * Width(m)) \div w) + 1]]]

(***************************************************************************)
(* A returned loss: k = "fin" is the quotient num / (den + eps * 1e-8),    *)
(* k = "inf" / "nan" the IEEE result of dividing by that denominator, and  *)
(* k = "err" the RuntimeError torch raises for shapes that do not          *)
(* broadcast.                                                              *)
(***************************************************************************)
Loss(k, num, den, eps) == [k |-> k, num |-> num, den |-> den, eps |-> eps]
NotCalled == Loss("none", 0, 0, 0)
ShapeError == Loss("err", 0, 0, 0)
\* the value den + eps * 1e-8 is strictly positive (den is a natural)
DenPositive(den, eps) == den > 0 \/ (den = 0 /\ eps = 1)

\* floating-point division of a summed loss s by den + eps * 1e-8
Divide(s, den, eps) ==
    IF s.k = "nan" THEN Loss("nan", 0, den, eps)
    ELSE IF s.k = "inf" THEN Loss("inf", 0, den, eps)
    ELSE IF ~DenPositive(den, eps)
         THEN Loss(IF s.n = 0 THEN "nan" ELSE "inf", 0, den, eps)
    ELSE Loss("fin", s.n, den, eps)

ElemLoss(fn, a, b) == IF fn = "mse" THEN SqDiff(a, b) ELSE AbsDiff(a, b)

\* F.mse_loss / F.l1_loss with reduction='none'
LossNone(fn, pred, gt) ==
    [c \in 1..Chans(pred) |-> [p \in 1..Width(pred) |-> ElemLoss(fn, pred[c][p], gt[c][p])]]

\* F.mse_loss / F.l1_loss with the default reduction 'mean'
LossMean(fn, pred, gt) ==
    Divide(SumVals(LossNone(fn, pred, gt)), Chans(pred) * Width(pred), 0)

NoMask == <<>>

\* seeded fault for MaskedQuotient: the denominator lacks the factor ndim
MaskedQuotientNoChannels(sum_loss, mask) ==
    IF ~(Broadcastable(Chans(sum_loss), Chans(mask))
         /\ Broadcastable(Width(sum_loss), Width(mask)))
    THEN ShapeError
    ELSE Divide(SumVals(MulBroadcast(sum_loss, mask)), SumMask(mask), 1)
\* seeded fault for MaskedQuotient: the denominator lacks the term 1e-8
MaskedQuotientNoEps(sum_loss, mask) ==
    IF ~(Broadcastable(Chans(sum_loss), Chans(mask))
         /\ Broadcastable(Width(sum_loss), Width(mask)))
    THEN ShapeError
    ELSE Divide(SumVals(MulBroadcast(sum_loss, mask)), Chans(sum_loss) * SumMask(mask), 0)
\* the tail shared by both masked losses:
\* torch.sum(sum_loss * mask) / (ndim * torch.sum(mask) + 1e-8), ndim = sum_loss.shape[1]
MaskedQuotient(sum_loss, mask) ==
    IF ~(Broadcastable(Chans(sum_loss), Chans(mask))
         /\ Broadcastable(Width(sum_loss), Width(mask)))
    THEN ShapeError
    ELSE Divide(SumVals(MulBroadcast(sum_loss, mask)), Chans(sum_loss) * SumMask(mask), 1)

masked_mse_loss(pred, gt, mask) ==
    IF mask = NoMask THEN LossMean("mse", pred, gt)
    ELSE MaskedQuotient(LossNone("mse", pred, gt), mask)

masked_l1_loss(pred, gt, mask) ==
    IF mask = NoMask THEN LossMean("l1", pred, gt)
    ELSE LET m == IF Width(mask) # Width(pred)
                  THEN InterpolateNearest(mask, Width(pred))
                  ELSE mask
         IN  MaskedQuotient(LossNone("l1", pred, gt), m)

(***************************************************************************)
(* Criterion-level model. A tensor is described by its name, its shape     *)
(* C x H x W and the operations applied to it; the pretrained networks     *)
(* (torchvision VGG, lpips.LPIPS) are uninterpreted, so a loss is the list *)
(* of weighted terms it is the sum of.                                     *)
(***************************************************************************)
\* image sizes are SizeUnit * (1..MaxSizeMul), square
SizeUnit == 32
MaxSizeMul == 2
\* args.boundary_crop_ratio is a numerator in -1..MaxRatioNum over RatioDen
RatioDen == 8
MaxRatioNum == 2
\* is_multi_view is drawn from 0..MaxMultiView, step from 0..MaxStep
MaxMultiView == 2
MaxStep == 1
\* the default of VGGLoss.forward's parameter size
VggSize == 224
\* channels of an image: the length of mean and std in VGGLoss.preprocess
RgbChans == 3

\* strings that are searched are sequences of characters
VGG == <<"v", "g", "g">>
VGG16 == <<"v", "g", "g", "1", "6">>
VGG19 == <<"v", "g", "g", "1", "9">>
LPIPS == <<"l", "p", "i", "p", "s">>
MSE == <<"m", "s", "e">>
L1 == <<"l", "1">>
SupportedModes == {VGG16, VGG19, LPIPS, MSE, L1}
\* the values of args.loss_mode a Criterion is constructed with
LossModes ==
    SupportedModes
    \cup {VGG, <<"v", "g", "g", "1", "1">>, <<"x", "v", "g", "g">>,
          <<"l", "2">>, <<"v", "g">>, <<>>}

\* Python's `sub in s` for strings
Contains(sub, s) ==
    \E i \in 1..(Len(s) - Len(sub) + 1) : SubSeq(s, i, i + Len(sub) - 1) = sub

NoneT == [name |-> "None", c |-> 0, h |-> 0, w |-> 0, ops |-> <<>>]
Tensor(name, c, h, w) == [name |-> name, c |-> c, h |-> h, w |-> w, ops |-> <<>>]
Apply(x, op) == [x EXCEPT !.ops = Append(@, op)]
Resized(x, op, h, w) == [x EXCEPT !.h = h, !.w = w, !.ops = Append(@, op)]
SameHW(x, y) == x.h = y.h /\ x.w = y.w

\* a term of a loss: (1 / w) * fn(a, b, m)
Term(w, f, a, b, m) == [w |-> w, fn |-> f, a |-> a, b |-> b, m |-> m]
\* one evaluation of sum_loss * mask
Mul(l, m) == [loss |-> l, mask |-> m]
Ok(terms, muls) == [k |-> "ok", exc |-> "", terms |-> terms, muls |-> muls]
Raise(exc, muls) == [k |-> "raise", exc |-> exc, terms |-> <<>>, muls |-> muls]

\* torch broadcasting of sum_loss (shape of pred) with mask
ShapesBroadcast(x, m) ==
    /\ Broadcastable(x.c, m.c)
    /\ Broadcastable(x.h, m.h)
    /\ Broadcastable(x.w, m.w)

\* masked_mse_loss on descriptors
MaskedMseTerm(pred, gt, mask) ==
    IF mask = NoneT THEN Ok(<<Term(1, "F.mse_loss", pred, gt, NoneT)>>, <<>>)
    ELSE IF ~ShapesBroadcast(pred, mask) THEN Raise("RuntimeError", <<Mul(pred, mask)>>)
    ELSE Ok(<<Term(1, "masked_mse_loss", pred, gt, mask)>>, <<Mul(pred, mask)>>)

\* masked_l1_loss on descriptors
MaskedL1Term(pred, gt, mask) ==
    IF mask = NoneT THEN Ok(<<Term(1, "F.l1_loss", pred, gt, NoneT)>>, <<>>)
    ELSE LET m == IF ~SameHW(mask, pred)
                  THEN Resized(mask, "interpolate", pred.h, pred.w) ELSE mask
         IN  IF ~ShapesBroadcast(pred, m) THEN Raise("RuntimeError", <<Mul(pred, m)>>)
             ELSE Ok(<<Term(1, "masked_l1_loss", pred, gt, m)>>, <<Mul(pred, m)>>)

\* torchvision's vgg16().features / vgg19().features: the indices of the
\* MaxPool2d layers, each halving H and W
PoolLayers(net) == IF net = "Vgg16" THEN {4, 9, 16, 23, 30} ELSE {4, 9, 18, 27, 36}
\* the layers range(a, b) each Sequential of the network is made of, as <<a, b>>
Slices(net) ==
    IF net = "Vgg16" THEN << <<0, 4>>, <<4, 9>>, <<9, 16>>, <<16, 23>> >>
    ELSE << <<0, 2>>, <<2, 7>>, <<7, 12>>, <<12, 21>>, <<21, 30>> >>

RECURSIVE Halved(_, _)
Halved(n, times) == IF times = 0 THEN n ELSE Halved(n \div 2, times - 1)

\* Vgg16.forward / Vgg19.forward: the output of every Sequential, in order
VggForward(net, x) ==
    [i \in 1..Len(Slices(net)) |->
        LET pools == Cardinality({l \in PoolLayers(net) : l < Slices(net)[i][2]})
        IN  Resized(x, <<net, i>>, Halved(x.h, pools), Halved(x.w, pools))]

\* self.weights, each weight 1.0 / d given by its d
\* seeded fault for Vgg19Weights: the last weight is missing
Vgg19FourWeights == <<32, 16, 8, 4>>
Vgg19Weights == <<32, 16, 8, 4, 1>>
Vgg16Weights == <<16, 8, 4, 1>>
\* VGGLoss.__init__: a model other than 'vgg16' and 'vgg19' sets neither vgg nor weights
VGGLossInit(model) ==
    IF model = VGG16
    THEN [kind |-> "VGGLoss", vgg |-> "Vgg16", hasWeights |-> TRUE, weights |-> Vgg16Weights]
    ELSE IF model = VGG19
    THEN [kind |-> "VGGLoss", vgg |-> "Vgg19", hasWeights |-> TRUE, weights |-> Vgg19Weights]
    ELSE [kind |-> "VGGLoss", vgg |-> "unset", hasWeights |-> FALSE, weights |-> <<>>]

Plain(kind) == [kind |-> kind, vgg |-> "unset", hasWeights |-> FALSE, weights |-> <<>>]

\* VGGLoss.preprocess
Preprocess(x) == Apply(x, "preprocess")

\* the loop of VGGLoss.forward from index i on, loss being the terms so far
RECURSIVE VggLoop(_, _, _, _, _, _)
VggLoop(lf, xv, yv, m, i, acc) ==
    IF i > Len(xv) THEN acc
    ELSE IF i > Len(lf.weights) THEN Raise("IndexError", acc.muls)
    ELSE LET t == MaskedL1Term(xv[i], yv[i], m)
         IN  IF t.k = "raise" THEN Raise(t.exc, acc.muls \o t.muls)
             ELSE VggLoop(lf, xv, yv, m, i + 1,
                          Ok(acc.terms \o <<[t.terms[1] EXCEPT !.w = lf.weights[i]]>>,
                             acc.muls \o t.muls))

\* VGGLoss.forward with size at its default
VGGLossForward(lf, x0, y0, mask0) ==
    LET x == Preprocess(x0)
        y == Preprocess(y0)
        m == IF mask0 = NoneT THEN NoneT
             ELSE Resized(mask0,
                          IF Min2(mask0.h, mask0.w) <= VggSize THEN "bilinear" ELSE "area",
                          VggSize, VggSize)
    IN  IF lf.vgg = "unset" THEN Raise("AttributeError", <<>>)
        ELSE LET xv == VggForward(lf.vgg, x)
                 yv == VggForward(lf.vgg, y)
                 first == MaskedL1Term(x, y, m)
             IN  IF \E i \in 1..Len(xv) : xv[i].h = 0 \/ xv[i].w = 0
                 THEN Raise("RuntimeError", <<>>)
                 ELSE IF first.k = "raise" THEN first
                 ELSE VggLoop(lf, xv, yv, m, 1, first)

\* core.utils.crop_boundary: int(h * ratio) rows and int(w * ratio) columns
\* are cut from each side
crop_boundary(x, num) ==
    Resized(x, "crop_boundary",
            x.h - 2 * ((x.h * num) \div RatioDen),
            x.w - 2 * ((x.w * num) \div RatioDen))

\* Criterion.__init__
NoCriterion ==
    [state |-> "none", exc |-> "", crop_ratio |-> 0, loss_mode |-> <<>>, loss_func |-> Plain("unset")]
Constructed(mode, num, lf) ==
    [state |-> "ok", exc |-> "", crop_ratio |-> num, loss_mode |-> mode, loss_func |-> lf]
CriterionInit(mode, num) ==
    IF Contains(VGG, mode) THEN Constructed(mode, num, VGGLossInit(mode))
    ELSE IF mode = LPIPS THEN Constructed(mode, num, Plain("LPIPS"))
    ELSE IF mode = MSE THEN Constructed(mode, num, Plain("masked_mse_loss"))
    ELSE IF mode = L1 THEN Constructed(mode, num, Plain("masked_l1_loss"))
    ELSE [state |-> "raised", exc |-> "NotImplementedError", crop_ratio |-> num,
          loss_mode |-> mode, loss_func |-> Plain("unset")]

\* dict objects: every key of the universe is absent or holds a value
Keys == {"loss_perceptual", "loss_l1", "lr"}
Absent == [set |-> FALSE, v |-> <<>>]
Item(terms) == [set |-> TRUE, v |-> terms]
OldItem == Item(<<Term(1, "old", NoneT, NoneT, NoneT)>>)
EmptyDict == [key \in Keys |-> Absent]
LogRefs == {"logA", "logB"}
Refs == LogRefs \cup {"res"}

\* self.loss_func(pred, target, mask) in the modes other than 'lpips'
LossFuncCall(lf, pred, target, mask) ==
    IF lf.kind = "VGGLoss" THEN VGGLossForward(lf, pred, target, mask)
    ELSE IF lf.kind = "masked_mse_loss" THEN MaskedMseTerm(pred, target, mask)
    ELSE MaskedL1Term(pred, target, mask)

\* lpips.LPIPS.forward(in0, in1)
LpipsCall(in0, in1) == Ok(<<Term(1, "lpips", in0, in1, NoneT)>>, <<>>)

\* seeded fault for AddsL1: the L1 term is added whatever is_multi_view is
AddsL1Always(is_multi_view) == TRUE
\* `if is_multi_view == 0:` in 'lpips' mode: the L1 term is added
AddsL1(is_multi_view) == is_multi_view = 0

\* seeded fault for LogOtherModes: the loss is logged as 'loss_perceptual'
LogOtherModesPerceptual(hp, scalar_to_log, loss) ==
    IF loss.k = "raise" THEN hp
    ELSE [hp EXCEPT ![scalar_to_log]["loss_perceptual"] = Item(loss.terms)]
\* what the branch of the modes other than 'lpips' writes to scalar_to_log: nothing
LogOtherModes(hp, scalar_to_log, loss) == hp

\* Criterion.forward: its outcome, the heap it leaves and the dict it returns
Returned(o, hp, ref) == [out |-> o, heap |-> hp, log |-> ref]
CriterionForward(self, hp, pred0, target0, mask, is_multi_view, res_dict, scalar_to_log, step) ==
    LET pred == IF self.crop_ratio > 0 THEN crop_boundary(pred0, self.crop_ratio) ELSE pred0
        target == IF self.crop_ratio > 0 THEN crop_boundary(target0, self.crop_ratio) ELSE target0
    IN  IF self.loss_mode = LPIPS
        THEN LET loss == LpipsCall(Apply(pred, "2x-1"), Apply(target, "2x-1"))
                 hp1 == [hp EXCEPT ![scalar_to_log]["loss_perceptual"] = Item(loss.terms)]
             IN  IF AddsL1(is_multi_view)
                 THEN LET l1_loss == MaskedL1Term(pred, target, mask)
                      IN  IF l1_loss.k = "raise" THEN Returned(l1_loss, hp1, "none")
                          ELSE Returned(Ok(loss.terms \o l1_loss.terms, l1_loss.muls),
                                        [hp1 EXCEPT ![scalar_to_log]["loss_l1"] = Item(l1_loss.terms)],
                                        scalar_to_log)
                 ELSE Returned(loss, hp1, scalar_to_log)
        ELSE LET loss == LossFuncCall(self.loss_func, pred, target, mask)
             IN  Returned(loss, LogOtherModes(hp, scalar_to_log, loss),
                          IF loss.k = "raise" THEN "none" ELSE scalar_to_log)

\* no call of Criterion.forward has been made
NoCall ==
    [made |-> FALSE, pred |-> NoneT, target |-> NoneT, mask |-> NoneT, is_multi_view |-> 0,
     res_dict |-> "res", scalar_to_log |-> "logA", step |-> 0,
     before |-> [r \in Refs |-> EmptyDict], out |-> Ok(<<>>, <<>>), log |-> "none"]

(***************************************************************************)
(* SpecLoss: the two masked losses applied to bounded inputs. The inputs   *)
(* start as flat or ramp images; a call repeats the previous one, and one  *)
(* call may replace a single element of pred or gt by any IEEE value.      *)
(***************************************************************************)
Flat(c, w, x) == [i \in 1..c |-> [p \in 1..w |-> x]]
Ramp(c, w, x) == [i \in 1..c |-> [p \in 1..w |-> Fin((i + p + x) % (MaxVal + 1))]]

\* masks of one channel and the width of pred
PixelMasks == [1..1 -> [1..NPix -> 0..1]]

\* the masks a call is made with, for a pred of c channels
MaskSet(c) ==
    {NoMask}
    \cup PixelMasks
    \cup {[i \in 1..c |-> m[1]] : m \in PixelMasks}
    \cup {Flat(1, NPix, x) : x \in 0..MaxMask}
    \cup {Flat(1, 1, x) : x \in 0..1}

NoEdit == [t |-> "none", c |-> 1, p |-> 1, v |-> Fin(0), old |-> Fin(0)]
EditSet(c) == [t : {"pred", "gt"}, c : 1..c, p : 1..NPix, v : Val, old : {Fin(0)}]

Edited(t, name, e) == IF e.t = name THEN [t EXCEPT ![e.c][e.p] = e.v] ELSE t

IdleCriterion ==
    /\ crit = NoCriterion
    /\ call = NoCall
    /\ heap = [r \in Refs |-> EmptyDict]

InitLoss ==
    /\ IdleCriterion
    /\ lastFn = "none"
    /\ ret = NotCalled
    /\ edit = NoEdit
    /\ argPred \in {Flat(NChan, NPix, Fin(x)) : x \in 0..MaxVal}
                  \cup {Ramp(NChan, NPix, x) : x \in 0..MaxVal}
    /\ argGt \in {Flat(NChan, NPix, Fin(x)) : x \in 0..MaxVal}
    /\ argMask \in MaskSet(NChan)

CallLoss(f, e) ==
    /\ e # NoEdit => edit = NoEdit
    /\ edit' = IF e = NoEdit THEN edit
               ELSE [e EXCEPT !.old = IF e.t = "pred" THEN argPred[e.c][e.p]
                                      ELSE argGt[e.c][e.p]]
    /\ argPred' = Edited(argPred, "pred", e)
    /\ argGt' = Edited(argGt, "gt", e)
    /\ lastFn' = f
    /\ UNCHANGED <<argMask, critVars>>
    /\ ret' = IF f = "mse"
              THEN masked_mse_loss(argPred', argGt', argMask)
              ELSE masked_l1_loss(argPred', argGt', argMask)

CallMaskedMse == \E e \in EditSet(Chans(argPred)) \cup {NoEdit} : CallLoss("mse", e)
CallMaskedL1 == \E e \in EditSet(Chans(argPred)) \cup {NoEdit} : CallLoss("l1", e)

NextLoss == CallMaskedMse \/ CallMaskedL1

SpecLoss == InitLoss /\ [][NextLoss]_vars

(***************************************************************************)
(* Spec: a Criterion is constructed and forward is called on it, with the  *)
(* dicts holding any combination of earlier entries.                       *)
(***************************************************************************)
ImageSizes == {SizeUnit * n : n \in 1..MaxSizeMul}
\* the masks forward is called with: none, of the size of the images, or of half of it
MaskKinds == {"none", "full", "half"}
MaskOf(kind, size) ==
    IF kind = "none" THEN NoneT
    ELSE IF kind = "full" THEN Tensor("mask", 1, size, size)
    ELSE Tensor("mask", 1, size \div 2, size \div 2)

IdleLoss ==
    /\ lastFn = "none" /\ ret = NotCalled /\ edit = NoEdit
    /\ argPred = Flat(NChan, NPix, Fin(0))
    /\ argGt = Flat(NChan, NPix, Fin(0))
    /\ argMask = NoMask

Init ==
    /\ IdleLoss
    /\ crit = NoCriterion
    /\ call = NoCall
    /\ \E old \in SUBSET Keys :
          heap = [r \in Refs |-> [key \in Keys |-> IF key \in old THEN OldItem ELSE Absent]]

Construct ==
    /\ crit.state = "none"
    /\ \E mode \in LossModes, num \in -1..MaxRatioNum : crit' = CriterionInit(mode, num)
    /\ UNCHANGED <<heap, call, lossVars>>

Forward ==
    /\ crit.state = "ok"
    /\ ~call.made
    /\ \E size \in ImageSizes, kind \in MaskKinds, imv \in 0..MaxMultiView,
          log \in LogRefs, step \in 0..MaxStep :
          LET pred == Tensor("pred", RgbChans, size, size)
              target == Tensor("target", RgbChans, size, size)
              mask == MaskOf(kind, size)
              r == CriterionForward(crit, heap, pred, target, mask, imv, "res", log, step)
          IN  /\ heap' = r.heap
              /\ call' = [made |-> TRUE, pred |-> pred, target |-> target, mask |-> mask,
                          is_multi_view |-> imv, res_dict |-> "res", scalar_to_log |-> log,
                          step |-> step, before |-> heap, out |-> r.out, log |-> r.log]
    /\ UNCHANGED <<crit, lossVars>>

Next == Construct \/ Forward

Spec == Init /\ [][Next]_vars

(***************************************************************************)
(* Properties of the masked losses (checked under SpecLoss).               *)
(***************************************************************************)
Called == lastFn # "none"
Masked == argMask # NoMask
Elems(t) == (1..Chans(t)) \X (1..Width(t))

\* the mask as it is multiplied with the per-element loss: interpolated by
\* masked_l1_loss when its width differs, then broadcast to the shape of pred
MulMaskOf(f, p, m) ==
    LET mi == IF f = "l1" /\ Width(m) # Width(p)
              THEN InterpolateNearest(m, Width(p)) ELSE m
    IN  [c \in 1..Chans(p) |-> [x \in 1..Width(p) |->
            mi[IF Chans(mi) = 1 THEN 1 ELSE c][IF Width(mi) = 1 THEN 1 ELSE x]]]
Multipliable(f, p, m) ==
    /\ Broadcastable(Chans(p), Chans(m))
    /\ f = "l1" \/ Broadcastable(Width(p), Width(m))

\* pred / gt of two calls agree on every element whose mask entry is not 0
AgreeWhereSelected(m, p1, g1, p2, g2) ==
    \A e \in Elems(p1) :
        m[e[1]][e[2]] # 0 => p1[e[1]][e[2]] = p2[e[1]][e[2]] /\ g1[e[1]][e[2]] = g2[e[1]][e[2]]

\* the per-element loss is finite wherever the mask entry is 0
FiniteWhereMasked(f, m, p, g) ==
    \A e \in Elems(p) :
        m[e[1]][e[2]] = 0 => IsFinite(ElemLoss(f, p[e[1]][e[2]], g[e[1]][e[2]]))

SameMaskedCall ==
    /\ Called /\ lastFn' = lastFn
    /\ Masked /\ argMask' = argMask
    /\ Multipliable(lastFn, argPred, argMask)
    /\ AgreeWhereSelected(MulMaskOf(lastFn, argPred, argMask),
                          argPred, argGt, argPred', argGt')

\* C3 as stated: two calls of the same masked loss with the same mask whose
\* pred / gt agree on every pixel with non-zero mask return the same loss.
C3_MaskedPixelsNeverMatter == [][SameMaskedCall => ret' = ret]_vars

\* C3 as amended: ... return the same loss provided that, in both calls, the
\* per-element loss is finite (neither inf nor nan) at every pixel where the
\* mask is 0.
C3_FiniteMaskedPixelsDoNotMatter ==
    [][(/\ SameMaskedCall
        /\ FiniteWhereMasked(lastFn, MulMaskOf(lastFn, argPred, argMask), argPred, argGt)
        /\ FiniteWhereMasked(lastFn, MulMaskOf(lastFn, argPred, argMask), argPred', argGt'))
       => ret' = ret]_vars

\* C3 witness: a call returned a finite non-zero loss after a masked-out
\* element of pred or gt was replaced by a different finite value.
C3_Witness ==
    /\ Called /\ Masked /\ Multipliable(lastFn, argPred, argMask)
    /\ edit # NoEdit /\ edit.v # edit.old /\ IsFinite(edit.v)
    /\ MulMaskOf(lastFn, argPred, argMask)[edit.c][edit.p] = 0
    /\ ret.k = "fin" /\ ret.num > 0

\* a 0/1 mask of a single channel and the width of pred selecting a pixel
BinaryPixelMask(m, p) ==
    /\ m # NoMask
    /\ Chans(m) = 1 /\ Width(m) = Width(p)
    /\ \A x \in 1..Width(m) : m[1][x] \in {0, 1}
    /\ \E x \in 1..Width(m) : m[1][x] = 1

Selected(m, p) == {e \in Elems(p) : m[1][e[2]] = 1}

\* sum of the per-element loss over a set of elements
RECURSIVE SumOver(_, _, _, _)
SumOver(S, f, p, g) ==
    IF S = {} THEN Fin(0)
    ELSE LET e == CHOOSE x \in S : TRUE
         IN  AddVal(ElemLoss(f, p[e[1]][e[2]], g[e[1]][e[2]]), SumOver(S \ {e}, f, p, g))

\* the mean of the per-element loss over the selected elements, with the
\* 1e-8 term in the denominator
SelectedMean(f, m, p, g) ==
    Divide(SumOver(Selected(m, p), f, p, g), Chans(p) * Cardinality({x \in 1..Width(m) : m[1][x] = 1}), 1)

AllOnes(m) == \A x \in 1..Width(m) : m[1][x] = 1

\* equal up to the 1e-8 term of the denominator
EqualUpToEps(a, b) == a.k = b.k /\ a.num = b.num /\ a.den = b.den

\* C4 as stated: with a single-channel 0/1 mask selecting a pixel the result
\* is the sum of the per-element loss over all C channels of the selected
\* pixels divided by C times their number (plus 1e-8), and an all-ones mask
\* gives the value of mask=None.
C4_MeanOverSelected ==
    (Called /\ BinaryPixelMask(argMask, argPred)) =>
        /\ ret = SelectedMean(lastFn, argMask, argPred, argGt)
        /\ AllOnes(argMask) => EqualUpToEps(ret, LossMean(lastFn, argPred, argGt))

\* C4 as amended: the same, provided the per-element loss is finite at every
\* pixel the mask does not select.
C4_MeanOverSelectedFinite ==
    (/\ Called /\ BinaryPixelMask(argMask, argPred)
     /\ FiniteWhereMasked(lastFn, MulMaskOf(lastFn, argPred, argMask), argPred, argGt)) =>
        /\ ret = SelectedMean(lastFn, argMask, argPred, argGt)
        /\ AllOnes(argMask) => EqualUpToEps(ret, LossMean(lastFn, argPred, argGt))

\* C4 witness: a mask selecting some but not all pixels, and a non-zero
\* finite mean over more than one channel.
C4_Witness ==
    /\ Called /\ BinaryPixelMask(argMask, argPred) /\ ~AllOnes(argMask)
    /\ Chans(argPred) > 1
    /\ FiniteWhereMasked(lastFn, MulMaskOf(lastFn, argPred, argMask), argPred, argGt)
    /\ ret.k = "fin" /\ ret.num > 0 /\ ret.den = Chans(argPred)
    /\ edit # NoEdit /\ edit.v # edit.old

AllZero(m) == \A c \in 1..Chans(m) : \A x \in 1..Width(m) : m[c][x] = 0
IsZeroLoss(l) == l.k = "fin" /\ l.num = 0 /\ DenPositive(l.den, l.eps)
ReturnedLoss == Called /\ Masked /\ ret # ShapeError

\* C5 as stated: for every non-negative mask the denominator is strictly
\* positive, and with an all-zero mask the loss is exactly 0 for every pred
\* and gt.
C5_ZeroMaskGivesZero ==
    ReturnedLoss =>
        /\ DenPositive(ret.den, ret.eps)
        /\ AllZero(argMask) => IsZeroLoss(ret)

\* C5 as amended: the denominator is strictly positive for every
\* non-negative mask, and with an all-zero mask the loss is exactly 0 for
\* every pred and gt whose per-element loss is finite everywhere.
C5_ZeroMaskGivesZeroFinite ==
    ReturnedLoss =>
        /\ DenPositive(ret.den, ret.eps)
        /\ (/\ AllZero(argMask)
            /\ \A e \in Elems(argPred) :
                 IsFinite(ElemLoss(lastFn, argPred[e[1]][e[2]], argGt[e[1]][e[2]])))
           => IsZeroLoss(ret)

\* C5 witness: an all-zero mask, pred different from gt, and a loss of 0
\* over the denominator 1e-8.
C5_Witness ==
    /\ ReturnedLoss /\ AllZero(argMask)
    /\ \E e \in Elems(argPred) :
         /\ IsFinite(argPred[e[1]][e[2]]) /\ IsFinite(argGt[e[1]][e[2]])
         /\ argPred[e[1]][e[2]] # argGt[e[1]][e[2]]
    /\ IsZeroLoss(ret) /\ ret.den = 0 /\ ret.eps = 1

(***************************************************************************)
(* Properties of Criterion (checked under Spec).                           *)
(***************************************************************************)
KindOf(mode) ==
    IF mode \in {VGG16, VGG19} THEN "VGGLoss"
    ELSE IF mode = LPIPS THEN "LPIPS"
    ELSE IF mode = MSE THEN "masked_mse_loss"
    ELSE "masked_l1_loss"

\* C1: __init__ raises NotImplementedError for every loss_mode outside
\* 'vgg16', 'vgg19', 'lpips', 'mse', 'l1'; for those five it completes with
\* VGGLoss (Vgg16), VGGLoss (Vgg19), LPIPS, masked_mse_loss, masked_l1_loss,
\* so no constructed Criterion has a loss function without network or weights.
C1_OnlySupportedModesConstruct ==
    crit.state # "none" =>
        /\ crit.loss_mode \notin SupportedModes =>
              crit.state = "raised" /\ crit.exc = "NotImplementedError"
        /\ crit.loss_mode \in SupportedModes =>
              crit.state = "ok" /\ crit.loss_func.kind = KindOf(crit.loss_mode)
        /\ (crit.state = "ok" /\ crit.loss_func.kind = "VGGLoss") =>
              /\ crit.loss_func.vgg = (IF crit.loss_mode = VGG16 THEN "Vgg16" ELSE "Vgg19")
              /\ crit.loss_func.hasWeights

\* pred / target as forward uses them: cropped when crop_ratio > 0
Cropped(x) == IF crit.crop_ratio > 0 THEN crop_boundary(x, crit.crop_ratio) ELSE x
PerceptualTerm ==
    Term(1, "lpips", Apply(Cropped(call.pred), "2x-1"), Apply(Cropped(call.target), "2x-1"), NoneT)
L1OfCall == MaskedL1Term(Cropped(call.pred), Cropped(call.target), call.mask)

\* C2: in 'lpips' mode the returned loss is the perceptual term on 2*pred-1
\* and 2*target-1 (no mask), plus masked_l1_loss(pred, target, mask) exactly
\* when is_multi_view == 0; in every other mode it is exactly
\* loss_func(pred, target, mask).
C2_LossTerms ==
    call.made =>
        IF crit.loss_mode = LPIPS
        THEN /\ call.out.k = "ok"
             /\ call.out.terms =
                   <<PerceptualTerm>>
                   \o (IF call.is_multi_view = 0 THEN L1OfCall.terms ELSE <<>>)
        ELSE call.out = LossFuncCall(crit.loss_func, Cropped(call.pred),
                                     Cropped(call.target), call.mask)

\* C2 witness: an 'lpips' call with a mask and is_multi_view == 0 on cropped
\* images returned the perceptual term plus the masked L1 term.
C2_Witness ==
    /\ call.made /\ crit.loss_mode = LPIPS /\ call.is_multi_view = 0
    /\ call.mask # NoneT /\ ~SameHW(Cropped(call.pred), call.pred)
    /\ Len(call.out.terms) = 2 /\ call.out.terms[2].fn = "masked_l1_loss"

\* C6: forward returns the dict it was given; in 'lpips' mode it sets
\* 'loss_perceptual' always and 'loss_l1' exactly when is_multi_view == 0, in
\* other modes it changes nothing; all other keys keep their values, and
\* res_dict and step are neither written nor read.
C6_LogFrame ==
    call.made =>
        LET d == call.scalar_to_log
            was == call.before[d]
            now == heap[d]
        IN  /\ call.out.k = "ok" => call.log = d
            /\ IF crit.loss_mode = LPIPS
               THEN /\ now["loss_perceptual"] = Item(<<PerceptualTerm>>)
                    /\ now["loss_l1"] = IF call.is_multi_view = 0
                                        THEN Item(L1OfCall.terms) ELSE was["loss_l1"]
               ELSE now = was
            /\ \A key \in Keys \ {"loss_perceptual", "loss_l1"} : now[key] = was[key]
            /\ \A r \in Refs \ {d} : heap[r] = call.before[r]
            /\ \A step \in 0..MaxStep, other \in {EmptyDict, [key \in Keys |-> OldItem]} :
                 LET r == CriterionForward(crit, [call.before EXCEPT !["res"] = other],
                                           call.pred, call.target, call.mask,
                                           call.is_multi_view, "res", d, step)
                 IN  r.out = call.out /\ r.log = call.log /\ r.heap[d] = now

\* C6 witness: an 'lpips' call with is_multi_view # 0 left an earlier
\* 'loss_l1' entry and an earlier 'lr' entry in place and replaced
\* 'loss_perceptual'.
C6_Witness ==
    /\ call.made /\ call.out.k = "ok" /\ crit.loss_mode = LPIPS /\ call.is_multi_view # 0
    /\ call.before[call.scalar_to_log] = [key \in Keys |-> OldItem]
    /\ heap[call.scalar_to_log]["loss_l1"] = OldItem
    /\ heap[call.scalar_to_log]["lr"] = OldItem
    /\ heap[call.scalar_to_log]["loss_perceptual"] # OldItem

\* the loss mode hands the mask to a masked loss
UsesMask == crit.loss_mode # LPIPS \/ call.is_multi_view = 0

\* C7: in every mode that uses the mask, in a call with a mask and
\* boundary_crop_ratio > 0 (pred and target cropped, the mask not), the mask
\* multiplied with the per-pixel loss has the height and width of that loss.
C7_MaskMatchesLoss ==
    (/\ call.made /\ call.mask # NoneT /\ UsesMask
     /\ crit.crop_ratio > 0 /\ ~SameHW(Cropped(call.pred), call.pred)) =>
        \A i \in 1..Len(call.out.muls) :
            SameHW(call.out.muls[i].loss, call.out.muls[i].mask)

\* the feature maps the network of the Criterion returns for x
FeaturesOf(x) == VggForward(crit.loss_func.vgg, Preprocess(Cropped(x)))
\* the mask VGGLoss.forward hands to its loss terms
VggMask ==
    IF call.mask = NoneT THEN NoneT
    ELSE Resized(call.mask,
                 IF Min2(call.mask.h, call.mask.w) <= VggSize THEN "bilinear" ELSE "area",
                 VggSize, VggSize)
Weighted(w, res) == [res.terms[1] EXCEPT !.w = w]

\* C8: for 'vgg16' and 'vgg19' there are as many weights as feature maps (4
\* and 5), the loop never indexes the weights out of range and uses each
\* once, and the loss is masked_l1_loss on the normalised inputs plus the sum
\* over i of weights[i] * masked_l1_loss(x_vgg[i], y_vgg[i], mask).
C8_WeightsMatchFeatures ==
    (crit.state = "ok" /\ crit.loss_mode \in {VGG16, VGG19}) =>
        LET n == IF crit.loss_mode = VGG16 THEN 4 ELSE 5
            weights == crit.loss_func.weights
        IN  /\ Len(weights) = n
            /\ Len(Slices(crit.loss_func.vgg)) = n
            /\ call.made =>
                 /\ Len(FeaturesOf(call.pred)) = n
                 /\ call.out.exc # "IndexError"
                 /\ call.out.k = "ok" =>
                      call.out.terms =
                         <<Weighted(1, MaskedL1Term(Preprocess(Cropped(call.pred)),
                                                    Preprocess(Cropped(call.target)), VggMask))>>
                         \o [i \in 1..n |->
                               Weighted(weights[i],
                                        MaskedL1Term(FeaturesOf(call.pred)[i],
                                                     FeaturesOf(call.target)[i], VggMask))]

\* C8 witness: a 'vgg19' call with a mask returned a loss of six terms, the
\* last one weighted 1 on the fifth feature map.
C8_Witness ==
    /\ call.made /\ crit.loss_mode = VGG19 /\ call.mask # NoneT /\ call.out.k = "ok"
    /\ Len(call.out.terms) = 6
    /\ call.out.terms[6].w = 1 /\ call.out.terms[6].a = FeaturesOf(call.pred)[5]

====
